---- MODULE Spec2Model ----
(***************************************************************************)
(* A model of the FL-VCS operator tooling:                                 *)
(*   - src/src/ledger/ipfs_store.py : LocalIPFS, the content-addressed     *)
(*     local file store (add_bytes / get);                                 *)
(*   - src/src/cli/flvcs.py         : the commit command, which stores the *)
(*     artifact, derives the commit id and submits the record;             *)
(*   - src/scripts/deploy.py and src/src/ledger/interfaces.py : the        *)
(*     deployment sequence and the client's registry lookup.               *)
(*                                                                         *)
(* Byte strings are sequences of byte values, text strings are sequences   *)
(* of one-character strings.  Widths are scaled down: a digest / bytes32   *)
(* value is HashLen bytes wide instead of 32, a uint64 is RoundBits bits   *)
(* wide instead of 64.                                                     *)
(***************************************************************************)
EXTENDS Integers, Sequences, FiniteSets, TLC

VARIABLES
    fs,        \* the store directory: file name (text) -> file contents (bytes)
    ret,       \* outcome of the last LocalIPFS call that finished
    puts,      \* every (payload, digest, uri) an add_bytes call has returned
    procs,     \* concurrent callers of add_bytes: their position and locals
    cli,       \* the running commit command: its position, options and locals
    ledger,    \* every record sent to CommitLedger.addCommit, with its inputs
    dep,       \* the deploy script: its position and local contract handles
    chain,     \* the chain: deployed contracts and the Registry's entries
    lc         \* load_contracts: its position, locals and last outcome

storeVars == <<fs, ret, puts>>
commitVars == <<cli, ledger>>
deployVars == <<dep, chain, lc>>
vars == <<fs, ret, puts, procs, cli, ledger, dep, chain, lc>>

(***************************************************************************)
(* Bounds                                                                  *)
(***************************************************************************)
\* Longest payload (artifact) considered, in bytes.
MaxLen == 1
\* Number of concurrent callers of add_bytes.
NumProcs == 2

\* Byte values considered.
Byte == {0, 1}
Base == Cardinality(Byte)

RECURSIVE Pow(_, _)
Pow(b, n) == IF n = 0 THEN 1 ELSE b * Pow(b, n - 1)

\* All byte strings of length exactly n / at most n.
BytesOfLen(n) == [1..n -> Byte]
BytesUpTo(n) == UNION {BytesOfLen(k) : k \in 0..n}

\* Payloads tried: the empty one and, of every length up to MaxLen, those
\* of one repeated byte.
Payloads == {p \in BytesUpTo(MaxLen) : \A i, j \in 1..Len(p) : p[i] = p[j]}

\* Width of a digest and of a bytes32 value (stands for 32 bytes): the least
\* width at which Sha256 below has no collision on Payloads.
HashLen == MaxLen + 1

(***************************************************************************)
(* Text and byte helpers                                                   *)
(***************************************************************************)
HexDigits == <<"0", "1", "2", "3", "4", "5", "6", "7",
               "8", "9", "a", "b", "c", "d", "e", "f">>

HexVal(c) == CHOOSE i \in 0..15 : HexDigits[i + 1] = c

IsHexChar(c) == \E i \in 1..16 : HexDigits[i] = c

\* bytes.hex(): two lowercase hex digits per byte.
RECURSIVE Hex(_)
Hex(b) ==
    IF b = <<>> THEN <<>>
    ELSE <<HexDigits[(Head(b) \div 16) + 1], HexDigits[(Head(b) % 16) + 1]>>
         \o Hex(Tail(b))

\* Whether bytes.fromhex(s) succeeds: an even number of hex digits.
IsHex(s) == Len(s) % 2 = 0 /\ \A i \in 1..Len(s) : IsHexChar(s[i])

\* bytes.fromhex(s) for a string it accepts.
RECURSIVE FromHex(_)
FromHex(s) ==
    IF Len(s) < 2 THEN <<>>
    ELSE <<HexVal(s[1]) * 16 + HexVal(s[2])>> \o FromHex(SubSeq(s, 3, Len(s)))

\* Big-endian value of a byte string, and its inverse at a fixed width.
RECURSIVE BytesValBase(_, _)
BytesValBase(b, base) ==
    IF b = <<>> THEN 0
    ELSE BytesValBase(SubSeq(b, 1, Len(b) - 1), base) * base + b[Len(b)]

BytesVal(b) == BytesValBase(b, Base)

ToBytes(v, w) == [i \in 1..w |-> (v \div Pow(Base, w - i)) % Base]

SCHEME == <<"i", "p", "f", "s", ":", "/", "/">>

IsPrefixAt(s, i, pre) ==
    /\ i + Len(pre) - 1 <= Len(s)
    /\ SubSeq(s, i, i + Len(pre) - 1) = pre

\* str.replace("ipfs://", ""): every occurrence removed, left to right.
RECURSIVE RemoveScheme(_)
RemoveScheme(s) ==
    IF s = <<>> THEN <<>>
    ELSE IF IsPrefixAt(s, 1, SCHEME)
         THEN RemoveScheme(SubSeq(s, Len(SCHEME) + 1, Len(s)))
         ELSE <<Head(s)>> \o RemoveScheme(Tail(s))

(***************************************************************************)
(* LocalIPFS (ipfs_store.py)                                               *)
(***************************************************************************)
\* hashlib.sha256(data).digest(): a fixed-width value that is a function of
\* the payload alone and has no collision on the payloads considered.
Sha256(data) ==
    ToBytes((Pow(Base, Len(data)) - 1) \div (Base - 1) + BytesVal(data) + 1, HashLen)

\* h = hashlib.sha256(data).hexdigest()
HexDigest(data) == Hex(Sha256(data))

\* f"ipfs://{h}"
Uri(h) == SCHEME \o h

\* p = self.root / h : the file name under the store root.
StorePathAsUri(h) == Uri(h)
StorePath(h) == h

\* if not p.exists()
ShouldWriteAlways(dir, h) == TRUE
ShouldWrite(dir, h) == StorePath(h) \notin DOMAIN dir

\* The directory after file `name` holds `content`.
WriteFile(dir, name, content) ==
    [k \in DOMAIN dir \cup {name} |-> IF k = name THEN content ELSE dir[k]]

NoRet == [op |-> "none", kind |-> "none", data |-> <<>>, cid |-> <<>>,
          digest |-> <<>>, uri |-> <<>>, bytes |-> <<>>, known |-> FALSE,
          wrote |-> FALSE]

\* return h, f"ipfs://{h}"  (ret.wrote: whether this call wrote the file)
AddBytesRet(data, wrote) ==
    [NoRet EXCEPT !.op = "add_bytes", !.kind = "ok", !.data = data,
                  !.digest = HexDigest(data), !.uri = Uri(HexDigest(data)),
                  !.wrote = wrote]

PutRecord(data) ==
    [data |-> data, digest |-> HexDigest(data), uri |-> Uri(HexDigest(data))]

\* The store after add_bytes(data) ran to its end.
AddBytesStore(dir, data) ==
    IF ShouldWrite(dir, HexDigest(data))
    THEN WriteFile(dir, StorePath(HexDigest(data)), data)
    ELSE dir

\* add_bytes(data), no I/O error.
AddBytes(data) ==
    /\ fs' = AddBytesStore(fs, data)
    /\ ret' = AddBytesRet(data, ShouldWrite(fs, HexDigest(data)))
    /\ puts' = puts \cup {PutRecord(data)}
    /\ UNCHANGED <<procs, commitVars, deployVars>>

\* add_bytes(data) fails before any file is created (exists() or the open
\* inside write_bytes raises OSError): the exception leaves the caller.
AddBytesFailOpen(data) ==
    /\ ret' = [NoRet EXCEPT !.op = "add_bytes", !.kind = "OSError", !.data = data]
    /\ UNCHANGED <<fs, puts, procs, commitVars, deployVars>>

\* The directory after write_bytes(data) failed having created the file and
\* written its first n bytes (disk full, interrupted).
PartialWrite(dir, data, n) ==
    WriteFile(dir, StorePath(HexDigest(data)), SubSeq(data, 1, n))

\* add_bytes(data) fails inside write_bytes, after open(mode='wb') created
\* the file.
AddBytesFailWrite(data, n) ==
    /\ ShouldWrite(fs, HexDigest(data))
    /\ n < Len(data)
    /\ fs' = PartialWrite(fs, data, n)
    /\ ret' = [NoRet EXCEPT !.op = "add_bytes", !.kind = "OSError", !.data = data]
    /\ UNCHANGED <<puts, procs, commitVars, deployVars>>

\* What p.read_bytes() does for p = self.root / key: the root joined with the
\* empty string is the root directory itself.
ReadKind(dir, key) ==
    IF key = <<>> THEN "IsADirectoryError"
    ELSE IF key \in DOMAIN dir THEN "ok"
    ELSE "FileNotFoundError"

\* get(cid) on directory dir: the outcome and the bytes returned.
GetResult(dir, cid) ==
    LET key == RemoveScheme(cid)
        kind == ReadKind(dir, key)
    IN [kind |-> kind, bytes |-> IF kind = "ok" THEN dir[key] ELSE <<>>]

\* get(cid).  ret.known records whether, when get was called, some add_bytes
\* had already returned the address that cid resolves to.
Get(cid) ==
    /\ ret' = [NoRet EXCEPT !.op = "get", !.cid = cid,
                            !.kind = GetResult(fs, cid).kind,
                            !.bytes = GetResult(fs, cid).bytes,
                            !.known = \E r \in puts : r.digest = RemoveScheme(cid)]
    /\ UNCHANGED <<fs, puts, procs, commitVars, deployVars>>

\* Arguments of get: both forms of every address, of an address never
\* stored, and the bare scheme and the empty string.
UnknownDigest == Hex(ToBytes(0, HashLen))
GetArgs ==
    {<<>>, SCHEME, UnknownDigest, Uri(UnknownDigest)}
    \cup {HexDigest(p) : p \in Payloads}
    \cup {Uri(HexDigest(p)) : p \in Payloads}

(***************************************************************************)
(* Concurrent callers of add_bytes: one step per statement of add_bytes,   *)
(* write_bytes split into its open(mode='wb') and its write.               *)
(***************************************************************************)
Procs == 1..NumProcs

IdleProc == [pc |-> "idle", data |-> <<>>, h |-> <<>>, wrote |-> FALSE]

\* h = hashlib.sha256(data).hexdigest(); p = self.root / h
PHash(i, data) ==
    /\ procs[i].pc = "idle"
    /\ procs' = [procs EXCEPT ![i] = [pc |-> "exists", data |-> data,
                                      h |-> HexDigest(data), wrote |-> FALSE]]
    /\ UNCHANGED <<storeVars, commitVars, deployVars>>

\* if not p.exists():
PExists(i) ==
    /\ procs[i].pc = "exists"
    /\ procs' = [procs EXCEPT ![i].pc =
                    IF ShouldWrite(fs, procs[i].h) THEN "open" ELSE "return"]
    /\ UNCHANGED <<storeVars, commitVars, deployVars>>

\* write_bytes: open(mode='wb') creates the file, or truncates it.
POpen(i) ==
    /\ procs[i].pc = "open"
    /\ fs' = WriteFile(fs, StorePath(procs[i].h), <<>>)
    /\ procs' = [procs EXCEPT ![i].pc = "write"]
    /\ UNCHANGED <<ret, puts, commitVars, deployVars>>

\* The file after `data` is written at offset 0 over `old`.
Overwrite(old, data) == data \o SubSeq(old, Len(data) + 1, Len(old))

\* write_bytes: f.write(data) and close.
PWrite(i) ==
    /\ procs[i].pc = "write"
    /\ fs' = WriteFile(fs, StorePath(procs[i].h),
                       Overwrite(fs[StorePath(procs[i].h)], procs[i].data))
    /\ procs' = [procs EXCEPT ![i].pc = "return", ![i].wrote = TRUE]
    /\ UNCHANGED <<ret, puts, commitVars, deployVars>>

\* return h, f"ipfs://{h}"
PReturn(i) ==
    /\ procs[i].pc = "return"
    /\ ret' = [AddBytesRet(procs[i].data, procs[i].wrote)
                  EXCEPT !.digest = procs[i].h, !.uri = Uri(procs[i].h)]
    /\ puts' = puts \cup {[data |-> procs[i].data, digest |-> procs[i].h,
                           uri |-> Uri(procs[i].h)]}
    /\ procs' = [procs EXCEPT ![i] = IdleProc]
    /\ UNCHANGED <<fs, commitVars, deployVars>>

(***************************************************************************)
(* The commit command (flvcs.py)                                           *)
(***************************************************************************)
\* Commit runs considered, parents per commit, and the scaled uint64 width.
MaxRuns == 2
MaxParents == 2
RoundBits == 1

UintMax == Pow(2, RoundBits) - 1
\* --round values tried: the ends of the uint64 range and their neighbours.
Rounds == {0 - 1, 0, UintMax, UintMax + 1}

\* --artifact files tried: those holding a payload of MaxLen bytes.
Artifacts == {p \in Payloads : Len(p) = MaxLen}

\* Web3.keccak / keccak of an encoding: a value that is a function of the
\* input alone, without collisions.
Keccak256(b) == [keccak256 |-> b]

\* Web3.keccak(text=...) of the two fixed metadata texts: two fixed, distinct
\* 32-byte values.
KeccakText(t) ==
    IF t = "client1,client2" THEN ToBytes(1, HashLen) ELSE ToBytes(2, HashLen)

ZeroBytes32 == [i \in 1..HashLen |-> 0]

\* Two distinct parent commit identifiers, and the --parents options tried:
\* none, one, two in either order, MaxParents times the same one, one given
\* as bare hex (no 0x), and one that is not hex.
ParentA == [i \in 1..HashLen |-> 1]
ParentB == [i \in 1..HashLen |-> IF i = 1 THEN 1 ELSE 0]
Prefixed(h) == <<"0", "x">> \o h
ParentOptions ==
    {<<>>,
     <<Prefixed(Hex(ParentA))>>,
     <<Prefixed(Hex(ParentA)), Prefixed(Hex(ParentB))>>,
     <<Prefixed(Hex(ParentB)), Prefixed(Hex(ParentA))>>,
     [i \in 1..MaxParents |-> Prefixed(Hex(ParentB))],
     <<Hex(ParentA)>>,
     <<<<"0", "x", "z", "z">>>>}

\* Web3.to_bytes(hexstr=s): an optional 0x prefix, then hex digits.
HexstrToBytes(s) ==
    IF IsPrefixAt(s, 1, <<"0", "x">>) THEN FromHex(SubSeq(s, 3, Len(s)))
    ELSE FromHex(s)

\* bytes.fromhex(p[2:]) for one --parents value, and whether it raises.
ParentParses(p) == IsHex(SubSeq(p, 3, Len(p)))
ParentFromArg(p) == FromHex(SubSeq(p, 3, Len(p)))

\* parent_bytes, with no sentinel for a root commit.
ParentBytesNoSentinel(parents) ==
    [i \in 1..Len(parents) |-> ParentFromArg(parents[i])]
\* parent_bytes: the parsed --parents, or the placeholder parent of a root.
ParentBytes(parents) ==
    IF parents # <<>>
    THEN [i \in 1..Len(parents) |-> ParentFromArg(parents[i])]
    ELSE <<ZeroBytes32>>

\* abi.encode works on 32-byte words; here a word is HashLen bytes.
WordOfInt(v) == [i \in 1..HashLen |-> (v \div Pow(256, HashLen - i)) % 256]
PadRight(b) == [i \in 1..HashLen |-> IF i <= Len(b) THEN b[i] ELSE 0]

RECURSIVE Chunks(_)
Chunks(b) ==
    IF b = <<>> THEN <<>>
    ELSE IF Len(b) <= HashLen THEN <<PadRight(b)>>
    ELSE <<SubSeq(b, 1, HashLen)>> \o Chunks(SubSeq(b, HashLen + 1, Len(b)))

CharTable == {<<"i", 105>>, <<"p", 112>>, <<"f", 102>>, <<"s", 115>>,
              <<":", 58>>, <<"/", 47>>, <<"0", 48>>, <<"1", 49>>, <<"2", 50>>,
              <<"3", 51>>, <<"4", 52>>, <<"5", 53>>, <<"6", 54>>, <<"7", 55>>,
              <<"8", 56>>, <<"9", 57>>, <<"a", 97>>, <<"b", 98>>, <<"c", 99>>,
              <<"d", 100>>, <<"e", 101>>}
Utf8(s) == [i \in 1..Len(s) |-> (CHOOSE e \in CharTable : e[1] = s[i])[2]]

\* Whether abi.encode accepts the values: the round fits a uint64 and no
\* bytes32 value is longer than a word (a shorter one is padded).
Encodable(parents, round) ==
    /\ round \in 0..UintMax
    /\ \A i \in 1..Len(parents) : Len(parents[i]) <= HashLen

\* abi.encode(['bytes32[]','uint64','bytes32','bytes32','bytes32','string'],
\*            [parents, round, clientsHash, hyperparamsHash, artifactHash, uri])
\* : six head words (offsets for the two dynamic values), then the tails.
Encode(parents, round, clientsHash, hyperparamsHash, artifactHash, uri) ==
    LET tail1 == <<WordOfInt(Len(parents))>>
                 \o [i \in 1..Len(parents) |-> PadRight(parents[i])]
        tail2 == <<WordOfInt(Len(Utf8(uri)))>> \o Chunks(Utf8(uri))
        off1 == 6 * HashLen
        off2 == off1 + Len(tail1) * HashLen
    IN <<WordOfInt(off1), WordOfInt(round), PadRight(clientsHash),
         PadRight(hyperparamsHash), PadRight(artifactHash), WordOfInt(off2)>>
       \o tail1 \o tail2

\* commit_id with the uri left out of the encoding.
CommitIdNoUri(parents, round, clientsHash, hyperparamsHash, artifactHash, uri) ==
    Keccak256(Encode(parents, round, clientsHash, hyperparamsHash,
                     artifactHash, <<>>))
\* commit_id = Web3.keccak(abi.encode(...))
CommitId(parents, round, clientsHash, hyperparamsHash, artifactHash, uri) ==
    Keccak256(Encode(parents, round, clientsHash, hyperparamsHash,
                     artifactHash, uri))

\* commit_input
CommitInput(parent_bytes, round, clients_hash, hparams_hash, hashStr, uri) ==
    [id |-> CommitId(parent_bytes, round, clients_hash, hparams_hash,
                     HexstrToBytes(hashStr), uri),
     parents |-> parent_bytes,
     round |-> round,
     clientsHash |-> clients_hash,
     hyperparamsHash |-> hparams_hash,
     artifactHash |-> HexstrToBytes(hashStr),
     artifactURI |-> uri]

NoInput == [id |-> Keccak256(<<>>), parents |-> <<>>, round |-> 0,
            clientsHash |-> <<>>, hyperparamsHash |-> <<>>,
            artifactHash |-> <<>>, artifactURI |-> <<>>]

\* cli.runs counts the commit runs started, cli.failed holds the runs in
\* which add_bytes raised.
IdleCli(runs, failed) ==
    [pc |-> "idle", artifact |-> <<>>, round |-> 0, parents |-> <<>>,
     hashStr |-> <<>>, uri |-> <<>>, input |-> NoInput, runs |-> runs,
     failed |-> failed]

\* commit, up to the store call: data = read_bytes(); add_bytes(data).
CommitStore(artifact, round, parents) ==
    /\ cli.pc = "idle"
    /\ cli.runs < MaxRuns
    /\ fs' = AddBytesStore(fs, artifact)
    /\ ret' = AddBytesRet(artifact, ShouldWrite(fs, HexDigest(artifact)))
    /\ puts' = puts \cup {PutRecord(artifact)}
    /\ cli' = [cli EXCEPT !.pc = "stored", !.artifact = artifact,
                          !.round = round, !.parents = parents,
                          !.hashStr = HexDigest(artifact),
                          !.uri = Uri(HexDigest(artifact)),
                          !.runs = cli.runs + 1]
    /\ UNCHANGED <<procs, ledger, deployVars>>

\* commit, add_bytes raising before the file is created: the command ends.
CommitStoreFailOpen(artifact) ==
    /\ cli.pc = "idle"
    /\ cli.runs < MaxRuns
    /\ ret' = [NoRet EXCEPT !.op = "add_bytes", !.kind = "OSError",
                            !.data = artifact]
    /\ cli' = IdleCli(cli.runs + 1, cli.failed \cup {cli.runs + 1})
    /\ UNCHANGED <<fs, puts, procs, ledger, deployVars>>

\* commit, add_bytes raising inside write_bytes: the command ends, the
\* first n bytes of the artifact are on disk.
CommitStoreFailWrite(artifact, n) ==
    /\ cli.pc = "idle"
    /\ cli.runs < MaxRuns
    /\ ShouldWrite(fs, HexDigest(artifact))
    /\ n < Len(artifact)
    /\ fs' = PartialWrite(fs, artifact, n)
    /\ ret' = [NoRet EXCEPT !.op = "add_bytes", !.kind = "OSError",
                            !.data = artifact]
    /\ cli' = IdleCli(cli.runs + 1, cli.failed \cup {cli.runs + 1})
    /\ UNCHANGED <<puts, procs, ledger, deployVars>>

CanBuild(c) ==
    /\ \A i \in 1..Len(c.parents) : ParentParses(c.parents[i])
    /\ Encodable(ParentBytes(c.parents), c.round)

\* commit, from the metadata hashes to commit_input.
CommitBuild ==
    /\ cli.pc = "stored"
    /\ CanBuild(cli)
    /\ cli' = [cli EXCEPT !.pc = "built",
                          !.input = CommitInput(ParentBytes(cli.parents),
                                                cli.round,
                                                KeccakText("client1,client2"),
                                                KeccakText("lr=0.01,bs=32"),
                                                cli.hashStr, cli.uri)]
    /\ UNCHANGED <<storeVars, procs, ledger, deployVars>>

\* commit, bytes.fromhex or abi.encode raising: the command ends.
CommitBuildFail ==
    /\ cli.pc = "stored"
    /\ ~CanBuild(cli)
    /\ cli' = IdleCli(cli.runs, cli.failed)
    /\ UNCHANGED <<storeVars, procs, ledger, deployVars>>

\* tx = addCommit(commit_input); w3_interface.send(tx) with an account set.
CommitSubmit ==
    /\ cli.pc = "built"
    /\ ledger' = ledger \cup {[input |-> cli.input, artifact |-> cli.artifact,
                               parents |-> cli.parents, run |-> cli.runs]}
    /\ cli' = IdleCli(cli.runs, cli.failed)
    /\ UNCHANGED <<storeVars, procs, deployVars>>

\* send raising: no private key (RuntimeError), or the node refusing.
CommitSubmitFail ==
    /\ cli.pc = "built"
    /\ cli' = IdleCli(cli.runs, cli.failed)
    /\ UNCHANGED <<storeVars, procs, ledger, deployVars>>

NextCommit ==
    \/ \E a \in Artifacts : \E r \in Rounds : \E ps \in ParentOptions :
           CommitStore(a, r, ps)
    \/ \E a \in Artifacts : CommitStoreFailOpen(a)
    \/ \E a \in Artifacts : \E n \in 0..MaxLen : CommitStoreFailWrite(a, n)
    \/ CommitBuild
    \/ CommitBuildFail
    \/ CommitSubmit
    \/ CommitSubmitFail

(***************************************************************************)
(* deploy (deploy.py) and load_contracts (interfaces.py)                   *)
(***************************************************************************)
\* Addresses the chain can give a new contract: 1..NumAddrs (0 is the zero
\* address).
NumAddrs == 4
Addrs == 1..NumAddrs

Names == {"CommitLedger", "BranchManager", "PolicyRegistry"}

\* Web3.keccak(text=name): the Registry key of a name.
RegKey(name) == Keccak256(name)

\* The Registry contract: a mapping from key to address, zero when unset.
RegistrySet(reg, key, addr) == [reg EXCEPT ![key] = addr]
RegistryGet(reg, key) == reg[key]

InitDep == [pc |-> "Registry", registry |-> 0, policy_registry |-> 0,
            commit_ledger |-> 0, branch_manager |-> 0]
InitChain == [code |-> [a \in Addrs |-> "none"], bmArgs |-> <<>>,
              reg |-> [k \in {RegKey(n) : n \in Names} |-> 0]]
InitLc == [pc |-> "idle", CommitLedger |-> 0, BranchManager |-> 0,
           PolicyRegistry |-> 0, out |-> "none", raised |-> FALSE]

\* send_tx: the constructor transaction is mined and the contract lives at
\* a fresh address.
Fresh(a) == chain.code[a] = "none"

\* registry = send_tx("Registry", Registry)
DeployRegistry(a) ==
    /\ dep.pc = "Registry"
    /\ Fresh(a)
    /\ chain' = [chain EXCEPT !.code[a] = "Registry"]
    /\ dep' = [dep EXCEPT !.pc = "PolicyRegistry", !.registry = a]
    /\ UNCHANGED <<storeVars, procs, commitVars, lc>>

\* policy_registry = send_tx("PolicyRegistry", Policy)
DeployPolicyRegistry(a) ==
    /\ dep.pc = "PolicyRegistry"
    /\ Fresh(a)
    /\ chain' = [chain EXCEPT !.code[a] = "PolicyRegistry"]
    /\ dep' = [dep EXCEPT !.pc = "CommitLedger", !.policy_registry = a]
    /\ UNCHANGED <<storeVars, procs, commitVars, lc>>

\* commit_ledger = send_tx("CommitLedger", CL)
DeployCommitLedger(a) ==
    /\ dep.pc = "CommitLedger"
    /\ Fresh(a)
    /\ chain' = [chain EXCEPT !.code[a] = "CommitLedger"]
    /\ dep' = [dep EXCEPT !.pc = "BranchManager", !.commit_ledger = a]
    /\ UNCHANGED <<storeVars, procs, commitVars, lc>>

\* branch_manager = send_tx("BranchManager", BM,
\*     constructor_args=[commit_ledger.address, policy_registry.address])
DeployBranchManager(a) ==
    /\ dep.pc = "BranchManager"
    /\ Fresh(a)
    /\ chain' = [chain EXCEPT !.code[a] = "BranchManager",
                              !.bmArgs = <<dep.commit_ledger,
                                           dep.policy_registry>>]
    /\ dep' = [dep EXCEPT !.pc = "setCommitLedger", !.branch_manager = a]
    /\ UNCHANGED <<storeVars, procs, commitVars, lc>>

\* register_contract(name, address): registry.functions.set(keccak(name),
\* address), mined.
RegisterContract(name, address) ==
    chain' = [chain EXCEPT !.reg = RegistrySet(chain.reg, RegKey(name), address)]

\* register_contract("CommitLedger", commit_ledger.address)
RegisterCommitLedger ==
    /\ dep.pc = "setCommitLedger"
    /\ RegisterContract("CommitLedger", dep.commit_ledger)
    /\ dep' = [dep EXCEPT !.pc = "setBranchManager"]
    /\ UNCHANGED <<storeVars, procs, commitVars, lc>>

\* register_contract("BranchManager", branch_manager.address)
RegisterBranchManager ==
    /\ dep.pc = "setBranchManager"
    /\ RegisterContract("BranchManager", dep.branch_manager)
    /\ dep' = [dep EXCEPT !.pc = "setPolicyRegistry"]
    /\ UNCHANGED <<storeVars, procs, commitVars, lc>>

\* register_contract("PolicyRegistry", policy_registry.address); return
RegisterPolicyRegistry ==
    /\ dep.pc = "setPolicyRegistry"
    /\ RegisterContract("PolicyRegistry", dep.policy_registry)
    /\ dep' = [dep EXCEPT !.pc = "done"]
    /\ UNCHANGED <<storeVars, procs, commitVars, lc>>

\* A transaction of deploy raises (node unreachable, out of funds): the
\* script ends where it is.
DeployFail ==
    /\ dep.pc \notin {"done", "failed"}
    /\ dep' = [dep EXCEPT !.pc = "failed"]
    /\ UNCHANGED <<storeVars, procs, commitVars, chain, lc>>

\* cli(): exit(1) without --registry, else load_contracts(registry) starts.
\* The registry given is the one deploy published.
CliLoadContracts(registry) ==
    /\ lc.pc = "idle"
    /\ lc' = IF registry = 0
             THEN [InitLc EXCEPT !.out = "exit", !.raised = lc.raised]
             ELSE [InitLc EXCEPT !.pc = "CommitLedger", !.raised = lc.raised]
    /\ UNCHANGED <<storeVars, procs, commitVars, dep, chain>>

\* get_addr: if int(addr, 16) == 0: raise RuntimeError
GetAddrAcceptsZero(addr) == FALSE
GetAddrRaises(addr) == addr = 0

\* The name load_contracts resolves after `name`.
NextName(name) ==
    CASE name = "CommitLedger" -> "BranchManager"
      [] name = "BranchManager" -> "PolicyRegistry"
      [] name = "PolicyRegistry" -> "idle"

\* One get_addr(name) of load_contracts; the last one returns Contracts.
GetAddr ==
    /\ lc.pc \in Names
    /\ LET addr == RegistryGet(chain.reg, RegKey(lc.pc))
       IN lc' = IF GetAddrRaises(addr)
                THEN [InitLc EXCEPT !.out = "RuntimeError", !.raised = TRUE]
                ELSE [lc EXCEPT ![lc.pc] = addr, !.pc = NextName(lc.pc),
                                !.out = IF NextName(lc.pc) = "idle"
                                        THEN "ok" ELSE "none"]
    /\ UNCHANGED <<storeVars, procs, commitVars, dep, chain>>

NextDeploy ==
    \/ \E a \in Addrs : DeployRegistry(a)
    \/ \E a \in Addrs : DeployPolicyRegistry(a)
    \/ \E a \in Addrs : DeployCommitLedger(a)
    \/ \E a \in Addrs : DeployBranchManager(a)
    \/ RegisterCommitLedger
    \/ RegisterBranchManager
    \/ RegisterPolicyRegistry
    \/ DeployFail
    \/ \E r \in {0, dep.registry} : CliLoadContracts(r)
    \/ GetAddr

Init ==
    /\ fs = <<>>
    /\ ret = NoRet
    /\ puts = {}
    /\ procs = [i \in Procs |-> IdleProc]
    /\ cli = IdleCli(0, {})
    /\ ledger = {}
    /\ dep = InitDep
    /\ chain = InitChain
    /\ lc = InitLc

\* The store used by one caller at a time.
Next ==
    \/ \E data \in Payloads : AddBytes(data)
    \/ \E data \in Payloads : AddBytesFailOpen(data)
    \/ \E data \in Payloads : \E n \in 0..MaxLen : AddBytesFailWrite(data, n)
    \/ \E cid \in GetArgs : Get(cid)

Spec == Init /\ [][Next]_vars

\* The store used by NumProcs callers of add_bytes and a reader at once.
NextConcurrent ==
    \/ \E i \in Procs : \E data \in Payloads : PHash(i, data)
    \/ \E i \in Procs : PExists(i)
    \/ \E i \in Procs : POpen(i)
    \/ \E i \in Procs : PWrite(i)
    \/ \E i \in Procs : PReturn(i)
    \/ \E cid \in GetArgs : Get(cid)

SpecConcurrent == Init /\ [][NextConcurrent]_vars

\* Commit runs, one after the other, on one store directory.
SpecCommit == Init /\ [][NextCommit]_vars

\* One deploy run, with clients loading the contracts at any point of it.
SpecDeploy == Init /\ [][NextDeploy]_vars

(***************************************************************************)
(* Properties                                                              *)
(***************************************************************************)
OkBytes(b) == [kind |-> "ok", bytes |-> b]

\* C1: starting from the empty store, after any sequence of add_bytes
\* calls, get with either form of an address that add_bytes returned for a
\* payload p (the uri or the bare hex digest) returns exactly p.
C1_RoundTrip ==
    \A r \in puts :
        /\ GetResult(fs, r.uri) = OkBytes(r.data)
        /\ GetResult(fs, r.digest) = OkBytes(r.data)

\* C2: every add_bytes(p) returns the same (digest, uri) pair for the same
\* p, whatever ran in between, and once it has returned the store holds
\* exactly one object keyed by p's digest.
C2_IdempotentPut ==
    /\ \A r1, r2 \in puts : r1.data = r2.data => r1 = r2
    /\ \A r \in puts : Cardinality({k \in DOMAIN fs : k = r.digest}) = 1
    /\ (ret.op = "add_bytes" /\ ret.kind = "ok") =>
           \E r \in puts : r.data = ret.data /\ r.digest = ret.digest
                           /\ r.uri = ret.uri

\* C2 witness: add_bytes(p) returned without writing, the object of p being
\* stored complete already (a second put of p), beside another object.
C2_Witness ==
    /\ ret.op = "add_bytes"
    /\ ret.kind = "ok"
    /\ ~ret.wrote
    /\ ret.data # <<>>
    /\ fs[ret.digest] = ret.data
    /\ Cardinality(DOMAIN fs) > 1

\* C3: get fails with NotFound (FileNotFoundError), and never with another
\* error or with bytes, whenever the resolved key has no stored object, the
\* empty key included.
C3_GetNotFound ==
    (ret.op = "get" /\ RemoveScheme(ret.cid) \notin DOMAIN fs) =>
        ret.kind = "FileNotFoundError"

\* C4: under every interleaving of concurrent add_bytes calls, all calls
\* for one payload return the same address, a get issued after some
\* add_bytes(p) returned yields exactly p, and once every call has finished
\* the store holds p under p's digest.
C4_ConcurrentPutSafe ==
    /\ \A r1, r2 \in puts : r1.data = r2.data => r1 = r2
    /\ (ret.op = "get" /\ ret.known) =>
           \E r \in puts : /\ r.digest = RemoveScheme(ret.cid)
                           /\ ret.kind = "ok"
                           /\ ret.bytes = r.data
    /\ (\A i \in Procs : procs[i].pc = "idle") =>
           \A r \in puts : r.digest \in DOMAIN fs /\ fs[r.digest] = r.data

\* C5: no add_bytes or get call deletes an object or changes its bytes;
\* add_bytes(p) writes nothing when an object already exists under p's
\* digest, even one whose bytes differ from p.
C5_AppendOnly ==
    [][\A k \in DOMAIN fs : k \in DOMAIN fs' /\ fs'[k] = fs[k]]_vars

\* C5 witness: add_bytes(p) returned while the object under p's digest holds
\* bytes other than p, beside an object under another key.
C5_Witness ==
    /\ ret.op = "add_bytes"
    /\ ret.kind = "ok"
    /\ ret.digest \in DOMAIN fs
    /\ fs[ret.digest] # ret.data
    /\ Cardinality(DOMAIN fs) > 1

\* Every record the commit command has built: the one about to be sent and
\* those sent, each with the options of its run.
Built ==
    ledger \cup
    (IF cli.pc = "built"
     THEN {[input |-> cli.input, artifact |-> cli.artifact,
            parents |-> cli.parents, run |-> cli.runs]}
     ELSE {})

WordVal(w) == BytesValBase(w, 256)

\* The parents words inside the encoding an id was hashed from.
HashedParents(id) ==
    LET enc == id.keccak256
    IN SubSeq(enc, 8, 7 + WordVal(enc[7]))

PaddedSeq(bs) == [i \in 1..Len(bs) |-> PadRight(bs[i])]

DerivedId(r) ==
    Keccak256(Encode(r.parents, r.round, r.clientsHash, r.hyperparamsHash,
                     r.artifactHash, r.artifactURI))

\* C6: in every record the commit command builds, parents is non-empty;
\* without --parents it is exactly one all-zero value; and the sequence
\* hashed into the id is the one in the record.
C6_RootSentinel ==
    \A e \in Built :
        /\ Len(e.input.parents) >= 1
        /\ e.parents = <<>> => e.input.parents = <<ZeroBytes32>>
        /\ HashedParents(e.input.id) = PaddedSeq(e.input.parents)

\* C6 witness: a root commit (no --parents) was sent to the ledger.
C6_Witness ==
    \E e \in ledger : e.parents = <<>> /\ Len(e.input.parents) = 1

\* C7: the parents hashed and submitted are the identifiers given with
\* --parents, in the order given and with no value altered; and the ids
\* derived from [A, B] and from [B, A] differ for distinct A, B.
C7_ParentOrder ==
    /\ \A e \in Built :
           e.parents # <<>> =>
               /\ e.input.parents =
                      [i \in 1..Len(e.parents) |-> HexstrToBytes(e.parents[i])]
               /\ HashedParents(e.input.id) =
                      [i \in 1..Len(e.parents) |->
                          PadRight(HexstrToBytes(e.parents[i]))]
    /\ \A e1, e2 \in Built :
           (/\ Len(e1.input.parents) = 2
            /\ e1.input.parents[1] # e1.input.parents[2]
            /\ e2.input = [e1.input EXCEPT
                              !.id = e2.input.id,
                              !.parents = <<e1.input.parents[2],
                                            e1.input.parents[1]>>])
           => e1.input.id # e2.input.id

\* C8: the id of every record the commit command builds is the hash of the
\* encoding of that record's own parents, round, clientsHash,
\* hyperparamsHash, artifactHash and artifactURI, in this order; records
\* with the same field values carry the same id.
C8_DerivedId ==
    /\ \A e \in Built : e.input.id = DerivedId(e.input)
    /\ \A e1, e2 \in Built :
           [e1.input EXCEPT !.id = e2.input.id] = e2.input
               => e1.input.id = e2.input.id

\* C8 witness: two commit runs sent merge records with the same field
\* values.
C8_Witness ==
    \E e1, e2 \in ledger :
        /\ e1.run # e2.run
        /\ e1.input = e2.input
        /\ e1.parents # <<>>

\* C9: every record sent to the ledger was sent after its artifact was
\* stored: the store holds the artifact's bytes under the record's
\* artifactHash, artifactHash is the digest add_bytes returned,
\* artifactURI is "ipfs://" followed by its hex, and no run in which
\* add_bytes failed sent anything.
C9_ArtifactProvenance ==
    \A e \in ledger :
        /\ Hex(e.input.artifactHash) \in DOMAIN fs
        /\ fs[Hex(e.input.artifactHash)] = e.artifact
        /\ \E r \in puts : /\ r.data = e.artifact
                            /\ r.digest = Hex(e.input.artifactHash)
                            /\ r.uri = e.input.artifactURI
        /\ e.input.artifactURI = SCHEME \o Hex(e.input.artifactHash)
        /\ e.run \notin cli.failed

Handle(name) ==
    CASE name = "CommitLedger" -> dep.commit_ledger
      [] name = "BranchManager" -> dep.branch_manager
      [] name = "PolicyRegistry" -> dep.policy_registry

Registered(name) == chain.reg[RegKey(name)] # 0

\* C10: deploy publishes Registry, PolicyRegistry, CommitLedger and then
\* BranchManager (constructed with the CommitLedger and PolicyRegistry
\* addresses) before it registers any name; every name registered resolves
\* to the contract deploy published for it; and load_contracts returns
\* handles only when all three names are registered, each handle being the
\* registered, non-zero address; otherwise it raises RuntimeError.
C10_DeployRegistryAgreement ==
    /\ dep.policy_registry # 0 => dep.registry # 0
    /\ dep.commit_ledger # 0 => dep.policy_registry # 0
    /\ dep.branch_manager # 0 =>
           /\ dep.commit_ledger # 0
           /\ chain.bmArgs = <<dep.commit_ledger, dep.policy_registry>>
    /\ \A n \in Names :
           Registered(n) =>
               /\ dep.branch_manager # 0
               /\ chain.reg[RegKey(n)] = Handle(n)
               /\ chain.code[chain.reg[RegKey(n)]] = n
    /\ lc.out = "ok" =>
           \A n \in Names :
               /\ Registered(n)
               /\ lc[n] # 0
               /\ lc[n] = Handle(n)
               /\ chain.code[lc[n]] = n
    /\ lc.out \in {"none", "ok", "RuntimeError", "exit"}
    /\ (lc.pc = "idle" /\ lc.out = "none") => ~lc.raised

\* C10 witness: load_contracts returned handles after an earlier call,
\* made before the registrations were complete, raised RuntimeError.
C10_Witness ==
    /\ lc.out = "ok"
    /\ lc.raised
    /\ dep.pc = "done"
====
